---- MODULE Spec2Model ----
(***************************************************************************)
(* Endpoint discovery and request handling of AutoApi (src/src/autoapi.py) *)
(* and TrinoAutoApi (src/src/trinoautoapi.py).                             *)
(*                                                                         *)
(* Strings.  A string is a sequence of tokens; a token is either "/" or a  *)
(* non-empty word that contains no '/'.  The names of the data source and  *)
(* the routes built from them never put two words side by side, so two     *)
(* strings are equal exactly when their token sequences are, and           *)
(* str.strip("/") and str.split("/") act on tokens as they act on          *)
(* characters.                                                             *)
(***************************************************************************)
EXTENDS Integers, Sequences, FiniteSets

VARIABLES
  adapter,           \* which class was constructed: "AutoApi" | "TrinoAutoApi"
  sqlalchemy_uris,   \* self.sqlalchemy_uris (AutoApi); <<base connection>> (Trino)
  engines,           \* self.engines (TrinoAutoApi): the set of its keys
  catalog,           \* the data source's metadata during discovery: path -> columns
  table_order,       \* the order in which the server lists the tables of schema s
  pc,                \* position of __generate_endpoint_configs / the process
  ui, di, si, ti,    \* loop indexes: uri, database, schema, table
  databases,         \* local list `databases` (catalogs)
  schemas,           \* local list `schemas`
  tables,            \* local list `tables`
  endpoint_configs,  \* local list `endpoint_configs`, then the registered routes
  log,               \* log.error records written by discovery
  failures,          \* how many listing calls have failed so far
  backing,           \* the backing tables and the driver while requests are served
  handlers,          \* the frames of the handlers running side by side, by request
  connections        \* the connection each of those handlers opened, and its state

vars == <<adapter, sqlalchemy_uris, engines, catalog, table_order, pc, ui, di, si, ti,
          databases, schemas, tables, endpoint_configs, log, failures, backing, handlers,
          connections>>

-----------------------------------------------------------------------------
(* Bounds of the checked instance. *)

\* a backing table holds at most MaxRows rows at the time of a request
MaxRows == 11
\* a request passes no limit, None, or a limit in -MaxNegLimit..MaxLimit
MaxLimit == 2
MaxNegLimit == 1
\* column lists of at most MaxCols columns are fed to the type mapping
MaxCols == 2
\* at most MaxFailures listing calls fail during one discovery pass
MaxFailures == 1
\* at most MaxRequests handlers run side by side
MaxRequests == 2

-----------------------------------------------------------------------------
(* Python string helpers. *)

Slash == "/"

\* s[i..] of a sequence
Drop(s, n) == SubSeq(s, n + 1, Len(s))

RECURSIVE LStrip(_)
LStrip(s) == IF s # <<>> /\ Head(s) = Slash THEN LStrip(Tail(s)) ELSE s

RECURSIVE RStrip(_)
RStrip(s) ==
  IF s # <<>> /\ s[Len(s)] = Slash THEN RStrip(SubSeq(s, 1, Len(s) - 1)) ELSE s

\* str.strip("/")
Strip(s) == RStrip(LStrip(s))

\* index of the first "/" at or after position i, or 0
RECURSIVE FindSlash(_, _)
FindSlash(s, i) ==
  IF i > Len(s) THEN 0 ELSE IF s[i] = Slash THEN i ELSE FindSlash(s, i + 1)

\* str.split("/"): the segments between the separators, empty ones included
RECURSIVE Split(_)
Split(s) ==
  LET k == FindSlash(s, 1)
  IN  IF k = 0 THEN <<s>> ELSE <<SubSeq(s, 1, k - 1)>> \o Split(Drop(s, k))

-----------------------------------------------------------------------------
(* Column types.  Each native type is given with the SQLAlchemy classes it *)
(* is an instance of (its class and that class's bases in sqlalchemy.types).*)

NativeTypes ==
  { "VARCHAR", "TEXT", "ENUM", "FLOAT", "REAL", "NUMERIC", "INTEGER", "BIGINT",
    "SMALLINT", "BOOLEAN", "JSONB", "TIMESTAMP" }

Bases(t) ==
  CASE t = "VARCHAR"   -> {"String"}
    [] t = "TEXT"      -> {"Text", "String"}
    [] t = "ENUM"      -> {"Enum", "String"}
    [] t = "FLOAT"     -> {"Float", "Numeric"}
    [] t = "REAL"      -> {"Float", "Numeric"}
    [] t = "NUMERIC"   -> {"Numeric"}
    [] t = "INTEGER"   -> {"Integer"}
    [] t = "BIGINT"    -> {"BigInteger", "Integer"}
    [] t = "SMALLINT"  -> {"SmallInteger", "Integer"}
    [] t = "BOOLEAN"   -> {"Boolean"}
    [] t = "JSONB"     -> {"JSON"}
    [] t = "TIMESTAMP" -> {"DateTime"}

isinstance(t, cls) == cls \in Bases(t)

NoType == "NoHandler"

\* a mutation of MapType: the second test is against types.Numeric
MapTypeNumeric(col_type) ==
  IF isinstance(col_type, "String") THEN "str"
  ELSE IF isinstance(col_type, "Numeric") THEN "float"
  ELSE IF isinstance(col_type, "Integer") THEN "int"
  ELSE IF isinstance(col_type, "Boolean") THEN "bool"
  ELSE NoType

\* the if/elif chain of pydantic_from_table: the API type of one column, or NoType
\* when the chain reaches its else branch
MapType(col_type) ==
  IF isinstance(col_type, "String") THEN "str"
  ELSE IF isinstance(col_type, "Float") THEN "float"
  ELSE IF isinstance(col_type, "Integer") THEN "int"
  ELSE IF isinstance(col_type, "Boolean") THEN "bool"
  ELSE NoType

Col(n, t) == [name |-> n, type |-> t]

\* a mutation of BuildModel: a column of an unsupported type is left out of the
\* model instead of raising
RECURSIVE BuildModelSkip(_, _, _)
BuildModelSkip(columns, i, model_dict) ==
  IF i > Len(columns) THEN [ok |-> TRUE, fields |-> model_dict]
  ELSE LET col == columns[i]
           api == MapType(col.type)
       IN  BuildModelSkip(columns, i + 1,
                          IF api = NoType THEN model_dict
                          ELSE Append(model_dict, [name |-> col.name, type |-> api]))

\* the for loop of pydantic_from_table over `columns`, from column i on, with
\* model_dict the fields gathered so far: the model, or the exception raised
RECURSIVE BuildModel(_, _, _)
BuildModel(columns, i, model_dict) ==
  IF i > Len(columns) THEN [ok |-> TRUE, fields |-> model_dict]
  ELSE LET col == columns[i]
           api == MapType(col.type)
       IN  IF api = NoType
           THEN [ok |-> FALSE, exc |-> "Exception",
                 msg |-> <<"No handler for column", col.name, "with type", col.type>>]
           ELSE BuildModel(columns, i + 1,
                           Append(model_dict, [name |-> col.name, type |-> api]))

-----------------------------------------------------------------------------
(* The configured connections.  make_url(uri) keeps dialect, user, host, port. *)

URL(dialect, user, host, port) ==
  [dialect |-> dialect, user |-> user, host |-> host, port |-> port]

\* the default port of TrinoAutoApi.__init__
TrinoPort == 8080

PgA == URL("postgresql", "alice", <<"h1">>, "5432")
\* same host as PgA, another port: another server
PgB == URL("postgresql", "alice", <<"h1">>, "5433")
MySql == URL("mysql", "alice", <<"h2">>, "3306")
\* TrinoAutoApi() with its defaults: trino://trino@trino:8080
TrinoBase == URL("trino", "trino", <<"trino">>, TrinoPort)

\* the values of sqlalchemy_uris an AutoApi is constructed with
Configs == { <<PgA>>, <<PgA, PgB>>, <<MySql>> }

\* the server a connection URI reaches
Server(uri) == <<uri.host, uri.port>>

-----------------------------------------------------------------------------
(* The data source.  Every server shows the same hierarchy of databases    *)
(* (catalogs), schemas and tables.  The columns of the tables of schema s  *)
(* on server h1:5432 (and on the Trino server) and the order in which that *)
(* schema's tables are listed vary over the initial states; on server      *)
(* h1:5433 only table d.s.t has columns of supported types.                *)

Name(w) == <<w>>

D == Name("d")
S == Name("s")
R == Name("r")
T == Name("t")
\* a table named "t/"
TSlash == <<"t", Slash>>
\* a table named "a/b"
AB == <<"a", Slash, "b">>

\* rows of SHOW CATALOGS / SELECT datname FROM pg_database
DatabaseRows == << D, Name("template1"), Name("system") >>

\* insp.get_schema_names() of a database
SchemaRows(database) ==
  CASE database = D -> << Name("information_schema"), S, R >>
    [] database = Name("template1") -> << Name("default") >>
    [] database = Name("system") -> << S >>
    [] OTHER -> << >>

\* insp.get_table_names(schema) of a database
TableRows(database, schema) ==
  CASE database = D /\ schema = S -> table_order
    [] database = D /\ schema = R -> << AB >>
    [] database = D /\ schema = Name("information_schema") -> << Name("tables") >>
    [] database = Name("system") /\ schema = S -> << T >>
    [] OTHER -> << >>

Range(f) == { f[k] : k \in DOMAIN f }

\* the tables whose columns vary
VarPaths == { <<D, S, T>>, <<D, S, TSlash>> }

\* every (database, schema, table) of a server
Paths ==
  VarPaths \cup { <<D, R, AB>>, <<D, Name("information_schema"), Name("tables")>>,
                  <<Name("system"), S, T>> }

Good == << Col("id", "INTEGER"), Col("name", "VARCHAR") >>
Wide == << Col("id", "INTEGER"), Col("name", "VARCHAR"), Col("email", "TEXT") >>
Bad == << Col("payload", "JSONB") >>
Mixed == << Col("id", "BIGINT"), Col("payload", "JSONB") >>

\* the column lists a table of VarPaths may have
ColumnLists == { << >>, Good, Bad, Mixed }

\* insp.get_columns(schema, table) on a server during discovery
ColumnRows(server, database, schema, table) ==
  IF <<database, schema, table>> \notin Paths THEN << >>
  ELSE IF server = Server(PgB)
       THEN (IF <<database, schema, table>> = <<D, S, T>> THEN Good ELSE Bad)
  ELSE catalog[<<database, schema, table>>]

-----------------------------------------------------------------------------
(* Listing calls. *)

DatabaseExcludeAutoApi ==
  { Name("jmx"), Name("memory"), Name("system"), Name("tpcds"), Name("tpch"),
    Name("template0"), Name("template1") }

DatabaseExcludeTrino ==
  { Name("jmx"), Name("memory"), Name("system"), Name("tpcds"), Name("tpch") }

SchemaExclude == { Name("default"), Name("information_schema") }

\* [x for x in rows if x not in exclude]
RECURSIVE Filter(_, _)
Filter(rows, exclude) ==
  IF rows = << >> THEN << >>
  ELSE IF Head(rows) \in exclude THEN Filter(Tail(rows), exclude)
  ELSE <<Head(rows)>> \o Filter(Tail(rows), exclude)

Raised(e) == [ok |-> FALSE, exc |-> e]
Returned(v) == [ok |-> TRUE, value |-> v]

\* AutoApi.get_database_names(uri); `fails`: connecting or the statement raises
get_database_names(uri, fails) ==
  IF uri.dialect \notin {"trino", "postgresql"} THEN Raised("DialectNotSupported")
  ELSE IF fails THEN Raised("OperationalError")
  ELSE Returned(Filter(DatabaseRows, DatabaseExcludeAutoApi))

\* TrinoAutoApi.get_catalog_names()
get_catalog_names(fails) ==
  IF fails THEN Raised("OperationalError")
  ELSE Returned(Filter(DatabaseRows, DatabaseExcludeTrino))

get_schema_names(database, fails) ==
  IF fails THEN Raised("OperationalError")
  ELSE Returned(Filter(SchemaRows(database), SchemaExclude))

get_tables(database, schema, fails) ==
  IF fails THEN Raised("OperationalError")
  ELSE Returned(Filter(TableRows(database, schema), {}))

get_columns(server, database, schema, table, fails) ==
  IF fails THEN Raised("OperationalError")
  ELSE Returned(ColumnRows(server, database, schema, table))

\* pydantic_from_table: the columns are listed, then mapped one by one
pydantic_from_table(server, database, schema, table, fails) ==
  LET columns == get_columns(server, database, schema, table, fails)
  IN  IF ~columns.ok THEN columns ELSE BuildModel(columns.value, 1, << >>)

-----------------------------------------------------------------------------
(* Construction. *)

Permutations2(a, b) == { <<a, b>>, <<b, a>> }

\* the requests served side by side
Requests == 1..MaxRequests

\* the frame of a handler that has not been entered
Idle ==
  [pc |-> "idle", cfg |-> 0, limit |-> [kind |-> "omitted", value |-> 0],
   target |-> << >>, size |-> 0, exc |-> "", response |-> << >>]

\* the state every construction starts discovery from
InitCommon ==
  /\ engines = {}
  /\ pc = "uris"
  /\ ui = 1 /\ di = 0 /\ si = 0 /\ ti = 0
  /\ databases = << >> /\ schemas = << >> /\ tables = << >>
  /\ endpoint_configs = << >>
  /\ log = << >>
  /\ failures = 0
  /\ handlers = [r \in Requests |-> Idle]
  /\ connections = [r \in Requests |-> "none"]

\* AutoApi(sqlalchemy_uris=...) or TrinoAutoApi(), against any data source
Init ==
  /\ adapter \in {"AutoApi", "TrinoAutoApi"}
  /\ sqlalchemy_uris \in (IF adapter = "AutoApi" THEN Configs ELSE { <<TrinoBase>> })
  /\ catalog \in { c \in [Paths -> ColumnLists] : \A p \in Paths \ VarPaths : c[p] = Good }
  /\ table_order \in Permutations2(T, TSlash)
  /\ backing = [exists |-> TRUE, columns |-> Good, nrows |-> MaxRows, neg_all |-> FALSE]
  /\ InitCommon

-----------------------------------------------------------------------------
(* Discovery: __generate_endpoint_configs, one action per loop step. *)

uri == sqlalchemy_uris[ui]
database == databases[di]
schema == schemas[si]
table == tables[ti]

Join(segments) ==
  LET RECURSIVE J(_)
      J(k) == IF k > Len(segments) THEN << >> ELSE <<Slash>> \o segments[k] \o J(k + 1)
  IN  J(1)

\* a mutation of RouteAutoApi: schema and table change places
RouteAutoApiSwapped(u, db, sch, tbl) == Join(<<u.host, db, tbl, sch>>)

\* f"/{uri.host}/{database}/{schema}/{table}"
RouteAutoApi(u, db, sch, tbl) == Join(<<u.host, db, sch, tbl>>)

\* f"/{catalog}/{schema}/{table}"
RouteTrino(db, sch, tbl) == Join(<<db, sch, tbl>>)

\* EndpointConfig(route, pydantic_model, sqlalchemy_uri).  `origin` is history: the
\* server, database, schema and table whose columns the model was built from.
EndpointConfig(route, pydantic_model, sqlalchemy_uri, origin) ==
  [route |-> route, pydantic_model |-> pydantic_model,
   sqlalchemy_uri |-> sqlalchemy_uri, origin |-> origin]

\* whether the listing call about to be made fails
MayFail == IF failures < MaxFailures THEN BOOLEAN ELSE {FALSE}

Count(fails) == failures + (IF fails THEN 1 ELSE 0)

\* an exception leaves __generate_endpoint_configs: the local list is lost
Raise ==
  /\ pc' = "raised"
  /\ UNCHANGED <<ui, di, si, ti, databases, schemas, tables, endpoint_configs, log>>

\* `for uri in self.sqlalchemy_uris: databases = self.get_database_names(uri)`;
\* TrinoAutoApi: `catalogs = self.get_catalog_names()`, which stores the base engine
ForUri ==
  /\ pc = "uris"
  /\ ui <= Len(sqlalchemy_uris)
  /\ \E fails \in MayFail :
       /\ failures' = Count(fails)
       /\ LET r == IF adapter = "AutoApi" THEN get_database_names(uri, fails)
                   ELSE get_catalog_names(fails)
          IN  IF r.ok
              THEN /\ databases' = r.value
                   /\ di' = 1
                   /\ pc' = "databases"
                   /\ UNCHANGED <<ui, si, ti, schemas, tables, endpoint_configs, log>>
              ELSE Raise
  /\ engines' = IF adapter = "TrinoAutoApi" THEN engines \cup {"base"} ELSE engines
  /\ UNCHANGED <<adapter, sqlalchemy_uris, catalog, table_order, backing, handlers, connections>>

\* the uri loop is exhausted: `return endpoint_configs`, and the routes are registered
Return ==
  /\ pc = "uris"
  /\ ui > Len(sqlalchemy_uris)
  /\ pc' = "done"
  /\ UNCHANGED <<adapter, sqlalchemy_uris, engines, catalog, table_order, ui, di, si, ti,
                 databases, schemas, tables, endpoint_configs, log, failures, backing, handlers, connections>>

\* `for database in databases: schemas = self.get_schema_names(...)`
ForDatabase ==
  /\ pc = "databases"
  /\ di <= Len(databases)
  /\ \E fails \in MayFail :
       /\ failures' = Count(fails)
       /\ LET r == get_schema_names(database, fails)
          IN  IF r.ok
              THEN /\ schemas' = r.value
                   /\ si' = 1
                   /\ pc' = "schemas"
                   /\ UNCHANGED <<ui, di, ti, databases, tables, endpoint_configs, log>>
              ELSE Raise
  /\ UNCHANGED <<adapter, sqlalchemy_uris, engines, catalog, table_order, backing, handlers, connections>>

EndDatabases ==
  /\ pc = "databases"
  /\ di > Len(databases)
  /\ ui' = ui + 1
  /\ pc' = "uris"
  /\ UNCHANGED <<adapter, sqlalchemy_uris, engines, catalog, table_order, di, si, ti,
                 databases, schemas, tables, endpoint_configs, log, failures, backing, handlers, connections>>

\* `for schema in schemas: tables = self.get_tables(...)`
ForSchema ==
  /\ pc = "schemas"
  /\ si <= Len(schemas)
  /\ \E fails \in MayFail :
       /\ failures' = Count(fails)
       /\ LET r == get_tables(database, schema, fails)
          IN  IF r.ok
              THEN /\ tables' = r.value
                   /\ ti' = 1
                   /\ pc' = "tables"
                   /\ UNCHANGED <<ui, di, si, databases, schemas, endpoint_configs, log>>
              ELSE Raise
  /\ UNCHANGED <<adapter, sqlalchemy_uris, engines, catalog, table_order, backing, handlers, connections>>

EndSchemas ==
  /\ pc = "schemas"
  /\ si > Len(schemas)
  /\ di' = di + 1
  /\ pc' = "databases"
  /\ UNCHANGED <<adapter, sqlalchemy_uris, engines, catalog, table_order, ui, si, ti,
                 databases, schemas, tables, endpoint_configs, log, failures, backing, handlers, connections>>

\* what the try block of the table loop does with the outcome m of
\* pydantic_from_table: append the endpoint, or (except Exception) log and go on
TryTable(m, route, u, origin) ==
  IF m.ok
  THEN /\ endpoint_configs' =
            Append(endpoint_configs, EndpointConfig(route, m.fields, u, origin))
       /\ log' = log
  ELSE /\ log' = Append(log, [origin |-> origin, exc |-> m.exc,
                              msg |-> IF m.exc = "Exception" THEN m.msg ELSE << >>])
       /\ endpoint_configs' = endpoint_configs

\* the body of `for table in tables`
ForTable ==
  /\ pc = "tables"
  /\ ti <= Len(tables)
  /\ \E fails \in MayFail :
       /\ failures' = Count(fails)
       /\ TryTable(pydantic_from_table(Server(uri), database, schema, table, fails),
                   IF adapter = "AutoApi"
                   THEN RouteAutoApi(uri, database, schema, table)
                   ELSE RouteTrino(database, schema, table),
                   uri, <<Server(uri), database, schema, table>>)
  /\ ti' = ti + 1
  /\ UNCHANGED <<adapter, sqlalchemy_uris, engines, catalog, table_order, pc, ui, di, si,
                 databases, schemas, tables, backing, handlers, connections>>

EndTables ==
  /\ pc = "tables"
  /\ ti > Len(tables)
  /\ si' = si + 1
  /\ pc' = "schemas"
  /\ UNCHANGED <<adapter, sqlalchemy_uris, engines, catalog, table_order, ui, di, ti,
                 databases, schemas, tables, endpoint_configs, log, failures, backing, handlers, connections>>

Discover ==
  \/ ForUri \/ Return \/ ForDatabase \/ EndDatabases
  \/ ForSchema \/ EndSchemas \/ ForTable \/ EndTables

-----------------------------------------------------------------------------
(* Requests: auto_api_function, the handler of one generated route. *)

\* the default of the handler's parameter `limit`
DefaultLimit == 10
\* the value the handler gives a limit that is None
NoneLimit == 10

Omitted == [kind |-> "omitted", value |-> 0]
None == [kind |-> "none", value |-> 0]
Given(n) == [kind |-> "int", value |-> n]

Min(a, b) == IF a <= b THEN a ELSE b

\* a mutation of FetchMany: every row is fetched, as by fetchall()
FetchManyUnbounded(size, nrows, neg_all) == nrows

\* cursor.fetchmany(size) on a result of nrows rows: the number of rows fetched.
\* The size goes to the DBAPI driver as it is; for a size that is not positive
\* (zero or negative) the drivers differ: none, or all the rows (neg_all).
FetchMany(size, nrows, neg_all) ==
  IF size > 0 THEN Min(size, nrows)
  ELSE IF neg_all THEN nrows ELSE 0

\* `limit: Optional[int] = 10` and `if limit is None: limit = 10`
EffectiveLimit(limit) ==
  LET param == IF limit.kind = "omitted" THEN Given(DefaultLimit) ELSE limit
  IN  IF param.kind = "none" THEN NoneLimit ELSE param.value

ColNames(columns) == [k \in 1..Len(columns) |-> columns[k].name]

Failed(i, limit, nrows, live, e, target) ==
  [status |-> "error", cfg |-> i, limit |-> limit, nrows |-> nrows, live |-> live,
   exc |-> e, target |-> target, effective_limit |-> 0, response |-> << >>]

\* the part both handlers share, from Table(..., autoload=True) on: reflect the
\* table `target`, select it, fetchmany(limit), zip the cursor's keys with each row
Fetch(i, limit, nrows, live, neg_all, target) ==
  IF <<target[2], target[3], target[4]>> \notin Paths \/ ~live.exists
  THEN Failed(i, limit, nrows, live, "NoSuchTableError", target)
  ELSE LET size == EffectiveLimit(limit)
           n == FetchMany(size, nrows, neg_all)
           col_names == ColNames(live.columns)
       IN  [status |-> "ok", cfg |-> i, limit |-> limit, nrows |-> nrows, live |-> live,
            exc |-> "", target |-> target, effective_limit |-> size,
            response |-> [k \in 1..n |-> col_names]]

\* AutoApi: `_, database, schema, table_name = route.strip("/").split("/")`, and the
\* engine of str(endpoint_config.sqlalchemy_uri) + f"/{database}"
AutoApiFunction(i, limit, nrows, live, neg_all) ==
  LET cfg == endpoint_configs[i]
      parts == Split(Strip(cfg.route))
  IN  IF Len(parts) # 4
      THEN Failed(i, limit, nrows, live, "ValueError", << >>)
      ELSE Fetch(i, limit, nrows, live, neg_all,
                 <<Server(cfg.sqlalchemy_uri), parts[2], parts[3], parts[4]>>)

\* TrinoAutoApi: `catalog, schema, table = route.strip("/").split("/")`, and the
\* engine self.engines.get(catalog), else one of base_connection_string + f"/{catalog}"
TrinoApiFunction(i, limit, nrows, live, neg_all) ==
  LET cfg == endpoint_configs[i]
      parts == Split(Strip(cfg.route))
  IN  IF Len(parts) # 3
      THEN Failed(i, limit, nrows, live, "ValueError", << >>)
      ELSE LET stored == parts[1] = Name("base") /\ "base" \in engines
               \* the stored base engine is connected to no catalog
               engine_catalog == IF stored THEN << >> ELSE parts[1]
           IN  Fetch(i, limit, nrows, live, neg_all,
                     <<Server(TrinoBase), engine_catalog, parts[2], parts[3]>>)

\* the field names a model declares, in the order of create_model(**model_dict)
FieldNames(model) == [k \in DOMAIN model |-> model[k].name]

\* app.routes: for each descriptor in turn generate_api_path_function registers
\* route + "/" and then route (the decorator nearest the function applies first)
Routes ==
  LET RECURSIVE Registered(_)
      Registered(k) ==
        IF k > Len(endpoint_configs) THEN << >>
        ELSE << [path |-> endpoint_configs[k].route \o <<Slash>>, cfg |-> k],
                [path |-> endpoint_configs[k].route, cfg |-> k] >> \o Registered(k + 1)
  IN  Registered(1)

\* the paths a generated route answers
RoutePaths == LET routes == Routes IN { routes[j].path : j \in DOMAIN routes }

\* the router runs the first registered route whose path is the request's: the
\* index of that route's descriptor
Dispatch(path) ==
  LET routes == Routes
      hits == { j \in DOMAIN routes : routes[j].path = path }
  IN  routes[CHOOSE j \in hits : \A m \in hits : j <= m].cfg

\* response_model=Union[List[model], model] applied to the list the handler
\* returned: every field of the model is required (Optional[...] with `...`), so an
\* object that lacks one fails validation; the keys the model does not declare
\* are dropped and the declared ones are written in the model's order.  The
\* values are not modelled: a column keeps its type from discovery to request.
Validate(pydantic_model, response) ==
  LET declared == FieldNames(pydantic_model)
  IN  IF \A k \in DOMAIN response : Range(declared) \subseteq Range(response[k])
      THEN Returned([k \in DOMAIN response |-> declared])
      ELSE Raised("ResponseValidationError")

\* what the client gets from what the handler did: the exception of the
\* handler (a server error), or its return value through response_model
ResponseModel(result) ==
  LET checked == Validate(endpoint_configs[result.cfg].pydantic_model, result.response)
      ok == result.status = "ok" /\ checked.ok
  IN  [status |-> IF ok THEN "ok" ELSE "error", cfg |-> result.cfg,
       limit |-> result.limit, nrows |-> result.nrows, live |-> result.live,
       exc |-> IF result.status = "ok" /\ ~checked.ok THEN checked.exc ELSE result.exc,
       target |-> result.target, effective_limit |-> result.effective_limit,
       response |-> IF ok THEN checked.value ELSE << >>]

\* the application is built against any data source; the requests it then
\* serves are the steps of Serve, taken in SpecServe and SpecDrift
Spec == Init /\ [][Discover]_vars

-----------------------------------------------------------------------------
(* Discovery over every column list: table d.s.t has any list of at most   *)
(* MaxCols columns of any native types; no request is served.              *)

NameAt(k) ==
  CASE k = 1 -> "id" [] k = 2 -> "name" [] k = 3 -> "email" [] OTHER -> "extra"

TypedColumnLists ==
  UNION { { [k \in 1..n |-> Col(NameAt(k), f[k])] : f \in [1..n -> NativeTypes] } :
          n \in 0..MaxCols }

InitMap ==
  /\ adapter \in {"AutoApi", "TrinoAutoApi"}
  /\ sqlalchemy_uris = (IF adapter = "AutoApi" THEN <<PgA>> ELSE <<TrinoBase>>)
  /\ \E c \in TypedColumnLists :
       catalog = [p \in Paths |-> IF p = <<D, S, T>> THEN c ELSE Good]
  /\ table_order = <<T, TSlash>>
  /\ backing = [exists |-> TRUE, columns |-> Good, nrows |-> MaxRows, neg_all |-> FALSE]
  /\ InitCommon

SpecMap == InitMap /\ [][Discover]_vars

-----------------------------------------------------------------------------
(* Requests served side by side: auto_api_function runs in a worker thread, *)
(* one action per blocking step of the handler, and one for the validation *)
(* of its return value.  The frame handlers[r] holds the locals of request  *)
(* r; the endpoint descriptors, self.engines and the connection URIs are    *)
(* the state the handlers share.  `backing` is what every backing table is  *)
(* while the requests are served: whether it exists, its columns, how many  *)
(* rows it holds, and whether the driver reads a size that is not positive  *)
(* as "all rows" (neg_all).                                                 *)

\* what a caller may pass as `limit`: nothing, None, zero, the ends of
\* -MaxNegLimit..MaxLimit
Limits == {Omitted, None} \cup { Given(n) : n \in {0 - MaxNegLimit, 0, MaxLimit} }

\* the backing table as the handlers find it
LiveTables ==
  { [exists |-> TRUE, columns |-> c] : c \in { << >>, Good, Wide } }
    \cup { [exists |-> FALSE, columns |-> << >>] }

\* AutoApi, lines 213-215: the route is split into four parts, the engine is
\* made from the descriptor's URI
ResolveAutoApi(i) ==
  LET cfg == endpoint_configs[i]
      parts == Split(Strip(cfg.route))
  IN  IF Len(parts) # 4 THEN Raised("ValueError")
      ELSE Returned(<<Server(cfg.sqlalchemy_uri), parts[2], parts[3], parts[4]>>)

\* TrinoAutoApi, lines 204-208: the route is split into three parts, the engine
\* is self.engines.get(catalog), else a new one for the catalog
ResolveTrino(i) ==
  LET cfg == endpoint_configs[i]
      parts == Split(Strip(cfg.route))
  IN  IF Len(parts) # 3 THEN Raised("ValueError")
      ELSE Returned(<<Server(TrinoBase),
                      IF parts[1] = Name("base") /\ "base" \in engines
                      THEN << >> ELSE parts[1],
                      parts[2], parts[3]>>)

\* a mutation of EnginesAfterLookup: the handler keeps the engine it made,
\* self.engines[catalog] = engine
EnginesAfterLookupStored(i) ==
  LET parts == Split(Strip(endpoint_configs[i].route))
  IN  IF adapter = "TrinoAutoApi" /\ Len(parts) = 3 /\ Len(parts[1]) = 1
      THEN engines \cup { parts[1][1] }
      ELSE engines

\* self.engines once the handler has its engine: the engine made by
\* create_engine is a local of the handler, the map is only read
EnginesAfterLookup(i) == engines

\* an exception leaves the handler while its connection is in state `c`:
\* AutoApi's `with engine.connect() as conn` closes the connection it opened on
\* the way out (before engine.connect() has returned there is none to close),
\* TrinoAutoApi's conn.close() is the statement before `return` and is skipped
ConnectionAfterRaise(c) == IF adapter = "AutoApi" /\ c = "open" THEN "closed" ELSE c

Frame(r, h, c) ==
  /\ handlers' = [handlers EXCEPT ![r] = h]
  /\ connections' = [connections EXCEPT ![r] = c]

RaiseInHandler(r, e) ==
  Frame(r, [handlers[r] EXCEPT !.pc = "raised", !.exc = e],
        ConnectionAfterRaise(connections[r]))

Registry == <<adapter, sqlalchemy_uris, catalog, table_order, pc, ui, di, si, ti,
              databases, schemas, tables, endpoint_configs, log, failures, backing>>

\* a GET on a registered path is matched to its route and enters the handler of
\* endpoint_configs[i]: the route is split, the engine is found or made, `limit`
\* gets its default
Enter(r) ==
  /\ pc = "done"
  /\ handlers[r].pc = "idle"
  /\ \E path \in RoutePaths :
       LET i == Dispatch(path)
           resolved == IF adapter = "AutoApi" THEN ResolveAutoApi(i) ELSE ResolveTrino(i)
       IN  /\ \E limit \in Limits :
                LET h == [Idle EXCEPT !.cfg = i, !.limit = limit]
                IN  IF resolved.ok
                    THEN Frame(r, [h EXCEPT !.pc = "reflect", !.target = resolved.value,
                                            !.size = EffectiveLimit(limit)],
                               connections[r])
                    ELSE Frame(r, [h EXCEPT !.pc = "raised", !.exc = resolved.exc],
                               ConnectionAfterRaise(connections[r]))
           /\ engines' = IF resolved.ok THEN EnginesAfterLookup(i) ELSE engines
  /\ UNCHANGED Registry

\* table = Table(table_name, MetaData(schema=schema), autoload=True, ...)
Reflect(r) ==
  /\ handlers[r].pc = "reflect"
  /\ LET h == handlers[r]
     IN  IF <<h.target[2], h.target[3], h.target[4]>> \notin Paths \/ ~backing.exists
         THEN RaiseInHandler(r, "NoSuchTableError")
         ELSE Frame(r, [h EXCEPT !.pc = "connect"], connections[r])
  /\ UNCHANGED <<Registry, engines>>

\* engine.connect(): the connection is open, or connecting raises
Connect(r) ==
  /\ handlers[r].pc = "connect"
  /\ \E fails \in BOOLEAN :
       IF fails THEN RaiseInHandler(r, "OperationalError")
       ELSE Frame(r, [handlers[r] EXCEPT !.pc = "execute"], "open")
  /\ UNCHANGED <<Registry, engines>>

\* cursor = conn.execute(select(table))
Execute(r) ==
  /\ handlers[r].pc = "execute"
  /\ \E fails \in BOOLEAN :
       IF fails THEN RaiseInHandler(r, "OperationalError")
       ELSE Frame(r, [handlers[r] EXCEPT !.pc = "fetch"], connections[r])
  /\ UNCHANGED <<Registry, engines>>

\* rows = cursor.fetchmany(limit); col_names = list(cursor.keys());
\* response = [dict(zip(col_names, row)) for row in rows]
FetchRows(r) ==
  /\ handlers[r].pc = "fetch"
  /\ \E fails \in BOOLEAN :
       IF fails THEN RaiseInHandler(r, "OperationalError")
       ELSE LET h == handlers[r]
                n == FetchMany(h.size, backing.nrows, backing.neg_all)
                col_names == ColNames(backing.columns)
            IN  Frame(r, [h EXCEPT !.pc = "close",
                                   !.response = [k \in 1..n |-> col_names]],
                      connections[r])
  /\ UNCHANGED <<Registry, engines>>

\* AutoApi: `return response` leaves the with block; TrinoAutoApi: conn.close()
\* and `return response`.  The worker thread is done; the list it returned
\* waits for its validation.
Finish(r) ==
  /\ handlers[r].pc = "close"
  /\ Frame(r, [handlers[r] EXCEPT !.pc = "validate"], "closed")
  /\ UNCHANGED <<Registry, engines>>

\* the list the handler returned goes through response_model, and the response,
\* or the server error of a failed validation, is sent
Respond(r) ==
  /\ handlers[r].pc = "validate"
  /\ LET h == handlers[r]
         checked == Validate(endpoint_configs[h.cfg].pydantic_model, h.response)
     IN  IF checked.ok
         THEN Frame(r, [h EXCEPT !.pc = "returned", !.response = checked.value],
                    connections[r])
         ELSE Frame(r, [h EXCEPT !.pc = "raised", !.exc = checked.exc,
                                 !.response = << >>], connections[r])
  /\ UNCHANGED <<Registry, engines>>

Serve ==
  \E r \in Requests :
    \/ Enter(r) \/ Reflect(r) \/ Connect(r) \/ Execute(r) \/ FetchRows(r)
    \/ Finish(r) \/ Respond(r)

\* the application: it is built, then it serves
Next == Discover \/ Serve

\* one AutoApi or TrinoAutoApi whose listing calls all succeed
InitOne ==
  /\ adapter \in {"AutoApi", "TrinoAutoApi"}
  /\ table_order = <<T, TSlash>>
  /\ engines = {}
  /\ pc = "uris"
  /\ ui = 1 /\ di = 0 /\ si = 0 /\ ti = 0
  /\ databases = << >> /\ schemas = << >> /\ tables = << >>
  /\ endpoint_configs = << >>
  /\ log = << >>
  /\ failures = MaxFailures
  /\ handlers = [r \in Requests |-> Idle]
  /\ connections = [r \in Requests |-> "none"]

\* the tables are at every request what they were at discovery, MaxRows rows each
InitServe ==
  /\ InitOne
  /\ sqlalchemy_uris = (IF adapter = "AutoApi" THEN <<PgA>> ELSE <<TrinoBase>>)
  /\ catalog = [p \in Paths |-> Good]
  /\ \E neg_all \in BOOLEAN :
       backing = [exists |-> TRUE, columns |-> Good, nrows |-> MaxRows,
                  neg_all |-> neg_all]

SpecServe == InitServe /\ [][Next]_vars

\* the tables changed after discovery: table d.s.t had no columns or those of
\* Good when it was listed, and every table is dropped, or has any of the column
\* lists of LiveTables and no row or MaxRows rows, when the requests come
InitDrift ==
  /\ InitOne
  /\ sqlalchemy_uris \in (IF adapter = "AutoApi" THEN { <<PgA>>, <<PgA, PgB>> }
                          ELSE { <<TrinoBase>> })
  /\ \E c \in { << >>, Good } :
       catalog = [p \in Paths |-> IF p = <<D, S, T>> THEN c ELSE Good]
  /\ \E live \in LiveTables, nrows \in {0, MaxRows} :
       backing = [exists |-> live.exists, columns |-> live.columns, nrows |-> nrows,
                  neg_all |-> FALSE]

SpecDrift == InitDrift /\ [][Next]_vars

-----------------------------------------------------------------------------
(* Vocabulary of the properties. *)

Families == {"String", "Float", "Integer", "Boolean"}

\* the native type belongs to one of the four supported families
Supported(t) == \E fam \in Families : fam \in Bases(t)

AllSupported(columns) == \A k \in DOMAIN columns : Supported(columns[k].type)
HasUnsupported(columns) == \E k \in DOMAIN columns : ~Supported(columns[k].type)

\* the columns of the table a descriptor or a log record was made for
ColumnsOf(origin) == ColumnRows(origin[1], origin[2], origin[3], origin[4])

\* the endpoint descriptors made for a table
ConfigsOf(origin) ==
  { k \in DOMAIN endpoint_configs : endpoint_configs[k].origin = origin }

\* the log records of a kind written for a table
Logged(origin, exc) ==
  \E k \in DOMAIN log : log[k].origin = origin /\ log[k].exc = exc

\* the table loop of the current schema has visited every table
SchemaWalked == pc = "tables" /\ ti > Len(tables)

HereOrigin(tbl) == <<Server(uri), database, schema, tbl>>

IndexOf(seq, x) == CHOOSE k \in DOMAIN seq : seq[k] = x


-----------------------------------------------------------------------------
(* C1  Skip isolation.  When the table loop of a schema has ended: every   *)
(* table T1 of the schema that has a column of an unsupported type has no  *)
(* endpoint descriptor, and every sibling T2 whose columns are all of      *)
(* supported types, and whose column listing did not fail, has exactly one *)
(* descriptor, whichever of the two was visited first.                     *)
SkipIsolation ==
  SchemaWalked =>
    \A T1 \in Range(tables) :
      HasUnsupported(ColumnsOf(HereOrigin(T1))) =>
        /\ ConfigsOf(HereOrigin(T1)) = {}
        /\ \A T2 \in Range(tables) \ {T1} :
             ( /\ AllSupported(ColumnsOf(HereOrigin(T2)))
               /\ ~Logged(HereOrigin(T2), "OperationalError") )
             => Cardinality(ConfigsOf(HereOrigin(T2))) = 1

\* a schema whose first table failed on a column type and whose later table
\* gave its endpoint
SkipIsolationWitness ==
  /\ SchemaWalked
  /\ \E T1, T2 \in Range(tables) :
       /\ IndexOf(tables, T1) < IndexOf(tables, T2)
       /\ Logged(HereOrigin(T1), "Exception")
       /\ HasUnsupported(ColumnsOf(HereOrigin(T1)))
       /\ AllSupported(ColumnsOf(HereOrigin(T2)))
       /\ Cardinality(ConfigsOf(HereOrigin(T2))) = 1

\* request r was answered with a response
Answered(r) == handlers[r].pc = "returned"

(* C2  Limit bound.  A request answered with limit = n > 0, the table       *)
(* holding at least n rows, returns exactly n rows; a request answered      *)
(* that passed no limit returns at most 10 rows.                           *)
LimitBound ==
  \A r \in Requests :
    Answered(r) =>
      LET h == handlers[r]
      IN  /\ (h.limit.kind = "int" /\ h.limit.value > 0 /\ backing.nrows >= h.limit.value)
               => Len(h.response) = h.limit.value
          /\ h.limit.kind = "omitted" => Len(h.response) <= 10

\* limit=MaxLimit against a table of more rows gave MaxLimit rows, while another
\* request that passed no limit got 10
LimitBoundWitness ==
  \E r, q \in Requests :
    /\ Answered(r) /\ Answered(q)
    /\ handlers[r].limit = Given(MaxLimit)
    /\ backing.nrows > MaxLimit
    /\ Len(handlers[r].response) = MaxLimit
    /\ handlers[q].limit = Omitted
    /\ Len(handlers[q].response) = 10

(* C3  Limit defaulting, as claimed: a request whose limit is omitted or   *)
(* is zero or negative is served with the effective limit 10, and no       *)
(* request returns more rows than its effective limit (the limit passed    *)
(* when it is positive, 10 otherwise).                                     *)
LimitDefaulting ==
  \A r \in Requests :
    Answered(r) =>
      LET h == handlers[r]
          claimed == IF h.limit.kind = "int" /\ h.limit.value > 0
                     THEN h.limit.value ELSE 10
      IN  /\ h.size = claimed
          /\ Len(h.response) <= claimed

(* C4  Schema-response agreement, as claimed: for every endpoint descriptor *)
(* and every answered request to its route, every object of the response   *)
(* has exactly the field names of the response schema built for that       *)
(* descriptor at discovery, in that order, whatever the table's columns are *)
(* at the time of the request.  A request to the route of descriptor d is   *)
(* served by the handler of descriptor Dispatch(route of d).               *)
SchemaResponseAgreement ==
  \A r \in Requests :
    Answered(r) =>
      \A d \in DOMAIN endpoint_configs :
        Dispatch(endpoint_configs[d].route) = handlers[r].cfg =>
          \A k \in DOMAIN handlers[r].response :
            handlers[r].response[k] = FieldNames(endpoint_configs[d].pydantic_model)

(* C5  Route shape, as claimed: the route of every endpoint descriptor, of *)
(* either adapter, is /{catalog}/{schema}/{table}, or /{schema}/{table}    *)
(* when the catalog segment is omitted, with no other segment.             *)
RouteShapeClaimed ==
  \A k \in DOMAIN endpoint_configs :
    LET e == endpoint_configs[k]
        o == e.origin
    IN  \/ e.route = <<Slash>> \o o[2] \o <<Slash>> \o o[3] \o <<Slash>> \o o[4]
        \/ e.route = <<Slash>> \o o[3] \o <<Slash>> \o o[4]

NoSlash(name) == \A k \in DOMAIN name : name[k] # Slash

(* C5  Route shape, amended.  A TrinoAutoApi descriptor's route is         *)
(* "/" catalog "/" schema "/" table.  An AutoApi descriptor's route is     *)
(* "/" host "/" database "/" schema "/" table: the host name of the        *)
(* connection URI comes first and the database segment is never omitted.   *)
(* When no name contains '/', these are the route's only segments.         *)
RouteShape ==
  \A k \in DOMAIN endpoint_configs :
    LET e == endpoint_configs[k]
        o == e.origin
        host == e.sqlalchemy_uri.host
        names == IF adapter = "AutoApi" THEN <<host, o[2], o[3], o[4]>>
                 ELSE <<o[2], o[3], o[4]>>
        tail == <<Slash>> \o o[2] \o <<Slash>> \o o[3] \o <<Slash>> \o o[4]
    IN  /\ e.route = IF adapter = "AutoApi" THEN <<Slash>> \o host \o tail ELSE tail
        /\ (\A j \in DOMAIN names : NoSlash(names[j])) => Split(Strip(e.route)) = names

\* an AutoApi descriptor and, in another run, a TrinoAutoApi one exist; the
\* witness is the AutoApi descriptor of table d.s.t with its four segments
RouteShapeWitness ==
  /\ adapter = "AutoApi"
  /\ \E k \in DOMAIN endpoint_configs :
       /\ endpoint_configs[k].origin = <<Server(PgA), D, S, T>>
       /\ Split(Strip(endpoint_configs[k].route)) = <<PgA.host, D, S, T>>

(* C6  Type mapping totality.  Every endpoint descriptor was built from    *)
(* columns that all belong to the String, Float, Integer or Boolean family *)
(* and declares, column by column and under the column's name, str, float, *)
(* int or bool respectively.  Every table with a column of another type,   *)
(* once visited, has no descriptor and a logged error that names its first *)
(* such column and that column's type.                                     *)
TypeMappingTotality ==
  /\ \A k \in DOMAIN endpoint_configs :
       LET columns == ColumnsOf(endpoint_configs[k].origin)
           model == endpoint_configs[k].pydantic_model
       IN  /\ Len(model) = Len(columns)
           /\ \A j \in DOMAIN columns :
                /\ model[j].name = columns[j].name
                /\ "String" \in Bases(columns[j].type) => model[j].type = "str"
                /\ "Float" \in Bases(columns[j].type) => model[j].type = "float"
                /\ "Integer" \in Bases(columns[j].type) => model[j].type = "int"
                /\ "Boolean" \in Bases(columns[j].type) => model[j].type = "bool"
                /\ Supported(columns[j].type)
  /\ \A k \in DOMAIN log :
       LET columns == ColumnsOf(log[k].origin)
       IN  log[k].exc = "Exception" =>
             \E j \in DOMAIN columns :
               /\ ~Supported(columns[j].type)
               /\ \A i \in 1..(j - 1) : Supported(columns[i].type)
               /\ log[k].msg = <<"No handler for column", columns[j].name,
                                 "with type", columns[j].type>>
  /\ \A tbl \in Range(tables) :
       (pc = "tables" /\ IndexOf(tables, tbl) < ti) =>
         LET columns == ColumnsOf(HereOrigin(tbl))
         IN  /\ HasUnsupported(columns) =>
                  /\ ConfigsOf(HereOrigin(tbl)) = {}
                  /\ \/ Logged(HereOrigin(tbl), "Exception")
                     \/ Logged(HereOrigin(tbl), "OperationalError")
             /\ (AllSupported(columns) /\ ~Logged(HereOrigin(tbl), "OperationalError"))
                  => ConfigsOf(HereOrigin(tbl)) # {}

\* table d.s.t with a REAL and a BOOLEAN column got a model of float and bool
TypeMappingTotalityWitness ==
  \E k \in DOMAIN endpoint_configs :
    /\ endpoint_configs[k].origin[4] = T
    /\ ColumnsOf(endpoint_configs[k].origin) = << Col("id", "REAL"), Col("name", "BOOLEAN") >>
    /\ endpoint_configs[k].pydantic_model =
         << [name |-> "id", type |-> "float"], [name |-> "name", type |-> "bool"] >>

(* C7  Discovery never fails as a whole, as claimed: when a listing call   *)
(* fails, the build still does not raise.                                  *)
DiscoveryNeverRaises == failures > 0 => pc # "raised"

(* C8  Empty schema, as claimed: a table with no representable column,     *)
(* its column listing being empty included, produces no endpoint           *)
(* descriptor.                                                             *)
EmptySchemaSkipped ==
  \A k \in DOMAIN endpoint_configs :
    \E j \in DOMAIN ColumnsOf(endpoint_configs[k].origin) :
      Supported(ColumnsOf(endpoint_configs[k].origin)[j].type)

(* C9  Route uniqueness, as claimed: no two endpoint descriptors of one    *)
(* discovery pass have the same route.                                     *)
RouteUniqueness ==
  \A i, j \in DOMAIN endpoint_configs :
    i # j => endpoint_configs[i].route # endpoint_configs[j].route

(* C10  Route and backing table agree, as claimed: the server, database,   *)
(* schema and table a request handler resolves from the route are those    *)
(* whose columns the descriptor's response schema was built from.          *)
RouteTableAgreement ==
  \A r \in Requests :
    handlers[r].pc # "idle" =>
      handlers[r].target = endpoint_configs[handlers[r].cfg].origin

-----------------------------------------------------------------------------
(* Requests side by side. *)

\* what the handler of request r does when it runs alone, from its call to its
\* return or raise, against the same tables
Alone(r) ==
  LET h == handlers[r]
      live == [exists |-> backing.exists, columns |-> backing.columns]
  IN  IF adapter = "AutoApi"
      THEN AutoApiFunction(h.cfg, h.limit, backing.nrows, live, backing.neg_all)
      ELSE TrinoApiFunction(h.cfg, h.limit, backing.nrows, live, backing.neg_all)

\* what the client of request r gets when the request is served alone
AloneResponse(r) == ResponseModel(Alone(r))

\* request r has its response, and it is the response of the handler run alone
SameAsAlone(r) ==
  LET h == handlers[r]
  IN  /\ h.pc \in {"close", "validate"} =>
           /\ Alone(r).status = "ok"
           /\ Alone(r).target = h.target
           /\ Alone(r).effective_limit = h.size
           /\ Alone(r).response = h.response
      /\ h.pc = "returned" =>
           /\ AloneResponse(r).status = "ok"
           /\ AloneResponse(r).target = h.target
           /\ AloneResponse(r).effective_limit = h.size
           /\ AloneResponse(r).response = h.response
      /\ h.pc = "raised" /\ h.exc # "OperationalError" =>
           AloneResponse(r).status = "error" /\ AloneResponse(r).exc = h.exc

\* a step taken once the routes are registered leaves the descriptors, the
\* engines map and the connection URIs as they are
SharedUnchanged ==
  pc = "done" =>
    /\ endpoint_configs' = endpoint_configs
    /\ engines' = engines
    /\ sqlalchemy_uris' = sqlalchemy_uris
    /\ adapter' = adapter

\* C11: however the steps of the requests served side by side interleave, no step
\* of a handler changes the endpoint descriptors (their list, routes and models),
\* the engines map or the connection URIs, and every request that has its
\* rows or its response, or was refused for its route, its table or its rows'
\* fields, has the outcome of the same request served alone against the same
\* tables.
RequestIsolation ==
  /\ [](\A r \in Requests : SameAsAlone(r))
  /\ [][SharedUnchanged]_vars

\* two requests to the same route hold their responses at the same time, each
\* with its own limit, neither handler having returned
RequestIsolationWitness ==
  /\ handlers[1].pc = "close" /\ handlers[2].pc = "close"
  /\ handlers[1].cfg = handlers[2].cfg
  /\ handlers[1].limit = Omitted /\ handlers[2].limit = Given(MaxLimit)
  /\ Len(handlers[1].response) = DefaultLimit
  /\ Len(handlers[2].response) = MaxLimit
  /\ connections[1] = "open" /\ connections[2] = "open"

\* the handler of request r has finished: it returned its list or raised
Finished(r) == handlers[r].pc \in {"validate", "returned", "raised"}

\* C12: a connection that a handler opened is closed once that handler has
\* finished, whether it returned rows or raised while executing the query or
\* fetching rows, in AutoApi and in TrinoAutoApi; so no finished request leaves
\* an open connection behind.
ConnectionRelease ==
  \A r \in Requests : Finished(r) => connections[r] # "open"


====
